---------------------------- MODULE Spec2Model ----------------------------
(***************************************************************************)
(* Model of lib/ansible/modules/cloud/azure/azure_rm_container_registry.py *)
(* (class AzureContainerRegistry).  One invocation of the module is one    *)
(* pass of exec_module; every remote call of the Azure SDK is one step     *)
(* whose outcome the provider chooses.  The provider's registries persist  *)
(* between invocations, the module object does not.                        *)
(*                                                                         *)
(* Left out: creation_date (a wall-clock timestamp), logging.              *)
(***************************************************************************)
EXTENDS Integers, Sequences, FiniteSets, TLC

VARIABLES
    registries,         \* provider side: registry name -> registry object or None
    self,               \* attributes of the module object (set from kwargs)
    pc,                 \* position of the invocation in exec_module
    results,            \* self.results
    response,           \* result of the lookup that selects the branch
    update_parameters,  \* RegistryUpdateParameters built on the update path
    calls,              \* remote calls issued by this invocation, in order
    error,              \* how the invocation failed, "none" if it has not
    failure,            \* first remote call of this invocation that failed
                        \* for a reason other than "registry not found"
    prev                \* "none", or how the invocation before this one
                        \* ended when this one repeats its kwargs with
                        \* nothing changing the provider's state in between

vars == <<registries, self, pc, results, response, update_parameters,
          calls, error, failure, prev>>

-----------------------------------------------------------------------------
(* Bounds of the model *)

MaxTagValues == 2

(* Program constants *)

MinNameLen == 5
MaxNameLen == 50

-----------------------------------------------------------------------------
(* Values *)

\* Python None where a dict is expected, and where a str is expected
None == [None |-> TRUE]
NoName == "<None>"
\* dict(): the initial value of results['state']
EmptyDict == [empty_dict |-> TRUE]
Unset == [unset |-> TRUE]

RECURSIVE Repeat(_, _)
Repeat(c, n) == IF n = 0 THEN "" ELSE c \o Repeat(c, n - 1)

\* names just outside and just inside the accepted lengths
Names == { Repeat("r", MinNameLen - 1), Repeat("r", MinNameLen),
           Repeat("r", MaxNameLen), Repeat("r", MaxNameLen + 1) }
ValidNames == { n \in Names : Len(n) >= MinNameLen /\ Len(n) <= MaxNameLen }

StorageAccounts == {"acct1", "acct2"}
TagKeys == {"env"}
AllTagValues == <<"dev", "prod", "test">>
TagValues == { AllTagValues[i] : i \in 1..MaxTagValues }
TagMaps == UNION { [D -> TagValues] : D \in SUBSET TagKeys }
NoTags == [k \in {} |-> ""]

ResourceGroupLocation == "westus"

\* the kwargs an invocation may receive (module_arg_spec); check_mode comes
\* from the framework.  location is left to default, sku_name has one choice.
Kwargs == [ name : Names,
            state : {"present", "absent"},
            storage_account_name : {NoName, ""} \cup StorageAccounts,
            admin_user_enabled : BOOLEAN,
            tags : {None} \cup TagMaps,
            check_mode : BOOLEAN ]

\* what the provider stores for a registry
RegistryObjects == [ admin_user_enabled : BOOLEAN,
                     storage_account_name : StorageAccounts,
                     tags : TagMaps ]

ReadApis == {"registries.get", "storage_accounts.list_keys"}
WriteApis == {"registries.create", "registries.update", "registries.delete"}
Branches == {"create_container_registry", "update_container_registry",
             "delete_container_registry"}

Call(api, caller) == [api |-> api, caller |-> caller]

CountCalls(apis, callers) ==
    Cardinality({ i \in 1..Len(calls) :
                    calls[i].api \in apis /\ calls[i].caller \in callers })

Issued(api) == \E i \in 1..Len(calls) : calls[i].api = api

-----------------------------------------------------------------------------
(* Pure helpers of the class *)

NameLengthInvalidLoose(name) ==
    Len(name) < MinNameLen \/ Len(name) > MaxNameLen + 1

NameLengthInvalid(name) ==
    Len(name) < MinNameLen \/ Len(name) > MaxNameLen

\* python truthiness of a tags dict
Truthy(tags) == tags # None /\ DOMAIN tags # {}

registry_obj_to_dict(name, registry_obj) ==
    [ id |-> ".../Microsoft.ContainerRegistry/registries/" \o name,
      name |-> name,
      type |-> "Microsoft.ContainerRegistry/registries",
      location |-> ResourceGroupLocation,
      login_server |-> name \o ".azurecr.io",
      provisioning_state |-> "Succeeded",
      admin_user_enabled |-> registry_obj.admin_user_enabled,
      storage_account_name |-> registry_obj.storage_account_name,
      sku_name |-> "Basic",
      tags |-> IF Truthy(registry_obj.tags) THEN registry_obj.tags ELSE None ]

self_to_dict(s) ==
    [ id |-> ".../Microsoft.ContainerRegistry/registries/" \o s.name,
      name |-> s.name,
      type |-> "Microsoft.ContainerRegistry/registries",
      location |-> s.location,
      login_server |-> s.name \o ".azurecr.io",
      provisioning_state |-> "Succeeded",
      admin_user_enabled |-> s.admin_user_enabled,
      storage_account_name |-> s.storage_account_name,
      sku_name |-> "Basic",
      tags |-> IF Truthy(s.tags) THEN s.tags ELSE None ]

\* update_tags of the module base class: requested keys are added or
\* overwritten, the other existing keys are kept
MergedTags(existing, requested) ==
    LET old == IF existing = None THEN NoTags ELSE existing
        new == IF requested = None THEN NoTags ELSE requested
    IN  [ k \in DOMAIN old \cup DOMAIN new |->
            IF k \in DOMAIN new THEN new[k] ELSE old[k] ]

TagsChanged(existing, requested) ==
    LET old == IF existing = None THEN NoTags ELSE existing
        new == IF requested = None THEN NoTags ELSE requested
    IN  \E k \in DOMAIN new : k \notin DOMAIN old \/ old[k] # new[k]

-----------------------------------------------------------------------------
(* Remote calls: the outcomes the provider can produce *)

\* registries.get: the registry, CloudError "not found", a CloudError for
\* another reason (forbidden, throttled, server error), or another exception
GetOutcomes(name) ==
    (IF registries[name] # None THEN {"found"} ELSE {"not_found"})
        \cup {"cloud_error", "exception"}

\* storage_accounts.list_keys: no storage account has an empty name
ListKeysOutcomes(account) ==
    (IF account \in StorageAccounts THEN {"keys"} ELSE {})
        \cup {"cloud_error", "exception"}

\* create, update, delete
WriteOutcomes == {"ok", "cloud_error", "exception"}

get_container_registry(outcome, name) ==
    IF outcome = "found"
    THEN registry_obj_to_dict(name, registries[name])
    ELSE None

PrimaryKey(account) == "key:" \o account

StorageAccountParameters(account) ==
    [name |-> account, access_key |-> PrimaryKey(account)]

EmptyParameters == [k \in {} |-> None]

Noted(api, failed) == IF failed /\ failure = "none" THEN api ELSE failure

Fail(kind) ==
    /\ pc' = "failed"
    /\ error' = kind

-----------------------------------------------------------------------------
(* State after construction (__init__) *)

\* the attributes __init__ sets, lines 144-151
InitialSelf ==
    [ name |-> NoName, state |-> NoName, location |-> NoName,
      storage_account_name |-> NoName, admin_user_enabled |-> None,
      tags |-> None, check_mode |-> FALSE ]

InitialResults == [changed |-> FALSE, state |-> EmptyDict]

Init ==
    /\ registries \in [ValidNames -> RegistryObjects \cup {None}]
    /\ self = InitialSelf
    /\ pc = "idle"
    /\ results = InitialResults
    /\ response = Unset
    /\ update_parameters = EmptyParameters
    /\ calls = <<>>
    /\ error = "none"
    /\ failure = "none"
    /\ prev = "none"

\* exec_module copies kwargs into the object, lines 159-160
Start(kwargs, ended) ==
    /\ self' = [ name |-> kwargs.name, state |-> kwargs.state,
                 location |-> NoName,
                 storage_account_name |-> kwargs.storage_account_name,
                 admin_user_enabled |-> kwargs.admin_user_enabled,
                 tags |-> kwargs.tags, check_mode |-> kwargs.check_mode ]
    /\ pc' = "resolve_rg"
    /\ results' = InitialResults
    /\ response' = Unset
    /\ update_parameters' = EmptyParameters
    /\ calls' = <<>>
    /\ error' = "none"
    /\ failure' = "none"
    /\ prev' = ended
    /\ UNCHANGED registries

Invoke ==
    /\ pc = "idle"
    /\ \E kwargs \in Kwargs : Start(kwargs, "none")

\* the module process ends (return self.results, or fail); the next task
\* gets a newly constructed object
Exit ==
    /\ pc \in {"done", "failed"}
    /\ self' = InitialSelf
    /\ pc' = "idle"
    /\ results' = InitialResults
    /\ response' = Unset
    /\ update_parameters' = EmptyParameters
    /\ calls' = <<>>
    /\ error' = "none"
    /\ failure' = "none"
    /\ prev' = "none"
    /\ UNCHANGED registries

\* the same task is run again, nothing else touched the provider
InvokeAgain ==
    /\ pc \in {"done", "failed"}
    /\ Start(self,
             IF pc = "failed" THEN "failed"
             ELSE IF failure = "none" THEN "clean" ELSE "returned")

\* exec_module, lines 162-167
ResolveResourceGroup ==
    /\ pc = "resolve_rg"
    /\ calls' = Append(calls, Call("get_resource_group", "exec_module"))
    /\ \E outcome \in {"found", "missing"} :
         IF outcome = "missing"
         THEN /\ Fail("parameter_error")
              /\ failure' = Noted("get_resource_group", TRUE)
              /\ UNCHANGED self
         ELSE /\ self' = [self EXCEPT !.location =
                            IF @ = NoName THEN ResourceGroupLocation ELSE @]
              /\ pc' = "validate"
              /\ UNCHANGED <<error, failure>>
    /\ UNCHANGED <<registries, results, response, update_parameters, prev>>

\* exec_module, lines 169-181
ValidateName ==
    /\ pc = "validate"
    /\ IF NameLengthInvalid(self.name)
       THEN Fail("parameter_error")
       ELSE /\ pc' = IF self.state = "present" THEN "lookup" ELSE "delete"
            /\ UNCHANGED error
    /\ UNCHANGED <<registries, self, results, response, update_parameters,
                   calls, failure, prev>>

\* exec_module, lines 173-178
Lookup ==
    /\ pc = "lookup"
    /\ calls' = Append(calls, Call("registries.get", "exec_module"))
    /\ \E outcome \in GetOutcomes(self.name) :
         /\ failure' = Noted("registries.get", outcome \notin {"found", "not_found"})
         /\ IF outcome = "exception"
            THEN /\ Fail("uncaught")
                 /\ UNCHANGED response
            ELSE /\ response' = get_container_registry(outcome, self.name)
                 /\ pc' = IF response' = None THEN "create" ELSE "update"
                 /\ UNCHANGED error
    /\ UNCHANGED <<registries, self, results, update_parameters, prev>>

-----------------------------------------------------------------------------
(* create_container_registry *)

CreateBeginIgnoringCheckMode ==
    /\ pc = "create"
    /\ IF self.storage_account_name = NoName
       THEN /\ Fail("parameter_error")
            /\ UNCHANGED results
       ELSE /\ pc' = "create_key"
            /\ UNCHANGED <<results, error>>
    /\ UNCHANGED <<registries, self, response, update_parameters, calls,
                   failure, prev>>

\* lines 285-296
CreateBegin ==
    /\ pc = "create"
    /\ IF self.check_mode
       THEN /\ results' = [changed |-> TRUE, state |-> self_to_dict(self)]
            /\ pc' = "done"
            /\ UNCHANGED error
       ELSE IF self.storage_account_name = NoName
       THEN /\ Fail("parameter_error")
            /\ UNCHANGED results
       ELSE /\ pc' = "create_key"
            /\ UNCHANGED <<results, error>>
    /\ UNCHANGED <<registries, self, response, update_parameters, calls,
                   failure, prev>>

\* get_storage_account_key called from line 298
CreateKey ==
    /\ pc = "create_key"
    /\ calls' = Append(calls, Call("storage_accounts.list_keys",
                                   "create_container_registry"))
    /\ \E outcome \in ListKeysOutcomes(self.storage_account_name) :
         /\ failure' = Noted("storage_accounts.list_keys", outcome # "keys")
         /\ CASE outcome = "keys" -> pc' = "create_call" /\ UNCHANGED error
              [] outcome = "cloud_error" -> Fail("parameter_error")
              [] outcome = "exception" -> Fail("uncaught")
    /\ UNCHANGED <<registries, self, results, response, update_parameters, prev>>

CreateCallRetrying ==
    /\ pc = "create_call"
    /\ calls' = Append(calls, Call("registries.create",
                                   "create_container_registry"))
    /\ \E outcome \in WriteOutcomes :
         /\ failure' = Noted("registries.create", outcome # "ok")
         /\ IF outcome = "ok"
            THEN /\ registries' = [registries EXCEPT ![self.name] =
                        [ admin_user_enabled |-> self.admin_user_enabled,
                          storage_account_name |->
                              StorageAccountParameters(self.storage_account_name).name,
                          tags |-> IF self.tags = None THEN NoTags ELSE self.tags ]]
                 /\ results' = [results EXCEPT !.changed = TRUE]
                 /\ pc' = "create_refetch"
            ELSE /\ pc' = "create_call"
                 /\ UNCHANGED <<registries, results>>
    /\ UNCHANGED <<self, response, update_parameters, prev, error>>

\* lines 300-319
CreateCall ==
    /\ pc = "create_call"
    /\ calls' = Append(calls, Call("registries.create",
                                   "create_container_registry"))
    /\ \E outcome \in WriteOutcomes :
         /\ failure' = Noted("registries.create", outcome # "ok")
         /\ IF outcome = "ok"
            THEN /\ registries' = [registries EXCEPT ![self.name] =
                        [ admin_user_enabled |-> self.admin_user_enabled,
                          storage_account_name |->
                              StorageAccountParameters(self.storage_account_name).name,
                          tags |-> IF self.tags = None THEN NoTags ELSE self.tags ]]
                 /\ results' = [results EXCEPT !.changed = TRUE]
                 /\ pc' = "create_refetch"
                 /\ UNCHANGED error
            ELSE /\ Fail("remote_error")
                 /\ UNCHANGED <<registries, results>>
    /\ UNCHANGED <<self, response, update_parameters, prev>>

\* line 320
CreateRefetch ==
    /\ pc = "create_refetch"
    /\ calls' = Append(calls, Call("registries.get", "create_container_registry"))
    /\ \E outcome \in GetOutcomes(self.name) :
         /\ failure' = Noted("registries.get", outcome \notin {"found", "not_found"})
         /\ IF outcome = "exception"
            THEN /\ Fail("uncaught")
                 /\ UNCHANGED results
            ELSE /\ results' = [results EXCEPT
                                  !.state = get_container_registry(outcome, self.name)]
                 /\ pc' = "done"
                 /\ UNCHANGED error
    /\ UNCHANGED <<registries, self, response, update_parameters, prev>>

-----------------------------------------------------------------------------
(* update_container_registry *)

AdminUserEnabledAlwaysSent(s, registry_dictionary) == TRUE

AdminUserEnabledDiffers(s, registry_dictionary) ==
    s.admin_user_enabled # registry_dictionary.admin_user_enabled

StorageAccountComparedToName(s, registry_dictionary) ==
    s.storage_account_name # registry_dictionary.name

StorageAccountDiffers(s, registry_dictionary) ==
    s.storage_account_name # registry_dictionary.storage_account_name

\* lines 236-249
UpdateBegin ==
    /\ pc = "update"
    /\ IF self.storage_account_name = NoName
       THEN /\ Fail("parameter_error")
            /\ UNCHANGED <<results, update_parameters>>
       ELSE /\ update_parameters' =
                  IF AdminUserEnabledDiffers(self, response)
                  THEN ("admin_user_enabled" :> self.admin_user_enabled)
                  ELSE EmptyParameters
            /\ results' = [results EXCEPT !.changed =
                  \/ AdminUserEnabledDiffers(self, response)
                  \/ StorageAccountDiffers(self, response)]
            /\ pc' = IF StorageAccountDiffers(self, response)
                     THEN "update_key" ELSE "update_tags"
            /\ UNCHANGED error
    /\ UNCHANGED <<registries, self, response, calls, failure, prev>>

\* get_storage_account_key called from line 250, lines 251-252
UpdateKey ==
    /\ pc = "update_key"
    /\ calls' = Append(calls, Call("storage_accounts.list_keys",
                                   "update_container_registry"))
    /\ \E outcome \in ListKeysOutcomes(self.storage_account_name) :
         /\ failure' = Noted("storage_accounts.list_keys", outcome # "keys")
         /\ CASE outcome = "keys" ->
                   /\ update_parameters' =
                        ("storage_account" :>
                            StorageAccountParameters(self.storage_account_name))
                        @@ update_parameters
                   /\ pc' = "update_tags"
                   /\ UNCHANGED error
              [] outcome = "cloud_error" ->
                   Fail("parameter_error") /\ UNCHANGED update_parameters
              [] outcome = "exception" ->
                   Fail("uncaught") /\ UNCHANGED update_parameters
    /\ UNCHANGED <<registries, self, results, response, prev>>

\* lines 254-270
UpdateTags ==
    /\ pc = "update_tags"
    /\ LET update_tags == TagsChanged(response.tags, self.tags)
           merged == MergedTags(response.tags, self.tags)
           changed == results.changed \/ update_tags
       IN  /\ response' = [response EXCEPT !.tags = merged]
           /\ update_parameters' =
                IF update_tags
                THEN ("tags" :> merged) @@ update_parameters
                ELSE update_parameters
           /\ IF ~changed
              THEN /\ pc' = "done"
                   /\ UNCHANGED results
              ELSE IF self.check_mode
              THEN /\ results' = [changed |-> TRUE, state |-> self_to_dict(self)]
                   /\ pc' = "done"
              ELSE /\ results' = [results EXCEPT !.changed = TRUE]
                   /\ pc' = "update_call"
    /\ UNCHANGED <<registries, self, calls, error, failure, prev>>

\* what the provider does with a RegistryUpdateParameters
Patched(registry_obj, parameters) ==
    [ admin_user_enabled |->
        IF "admin_user_enabled" \in DOMAIN parameters
        THEN parameters.admin_user_enabled ELSE registry_obj.admin_user_enabled,
      storage_account_name |->
        IF "storage_account" \in DOMAIN parameters
        THEN parameters.storage_account.name ELSE registry_obj.storage_account_name,
      tags |->
        IF "tags" \in DOMAIN parameters
        THEN parameters.tags ELSE registry_obj.tags ]

\* lines 272-280
UpdateCall ==
    /\ pc = "update_call"
    /\ calls' = Append(calls, Call("registries.update",
                                   "update_container_registry"))
    /\ \E outcome \in WriteOutcomes :
         /\ failure' = Noted("registries.update", outcome # "ok")
         /\ IF outcome = "ok"
            THEN /\ registries' = [registries EXCEPT ![self.name] =
                                     Patched(@, update_parameters)]
                 /\ results' = [results EXCEPT !.changed = TRUE]
                 /\ pc' = "update_refetch"
                 /\ UNCHANGED error
            ELSE /\ Fail("remote_error")
                 /\ UNCHANGED <<registries, results>>
    /\ UNCHANGED <<self, response, update_parameters, prev>>

\* line 281
UpdateRefetch ==
    /\ pc = "update_refetch"
    /\ calls' = Append(calls, Call("registries.get", "update_container_registry"))
    /\ \E outcome \in GetOutcomes(self.name) :
         /\ failure' = Noted("registries.get", outcome \notin {"found", "not_found"})
         /\ IF outcome = "exception"
            THEN /\ Fail("uncaught")
                 /\ UNCHANGED results
            ELSE /\ results' = [results EXCEPT
                                  !.state = get_container_registry(outcome, self.name)]
                 /\ pc' = "done"
                 /\ UNCHANGED error
    /\ UNCHANGED <<registries, self, response, update_parameters, prev>>

-----------------------------------------------------------------------------
(* delete_container_registry *)

\* lines 185-193
DeleteBegin ==
    /\ pc = "delete"
    /\ IF self.check_mode
       THEN /\ results' = [changed |-> TRUE, state |-> None]
            /\ pc' = "done"
       ELSE /\ pc' = "delete_lookup"
            /\ UNCHANGED results
    /\ UNCHANGED <<registries, self, response, update_parameters, calls,
                   error, failure, prev>>

DeleteLookupUnchecked ==
    /\ pc = "delete_lookup"
    /\ calls' = Append(calls, Call("registries.get", "delete_container_registry"))
    /\ \E outcome \in GetOutcomes(self.name) :
         /\ failure' = Noted("registries.get", outcome \notin {"found", "not_found"})
         /\ IF outcome = "exception"
            THEN /\ Fail("uncaught")
                 /\ UNCHANGED <<response, results>>
            ELSE /\ response' = get_container_registry(outcome, self.name)
                 /\ results' = [results EXCEPT !.changed = TRUE]
                 /\ pc' = "delete_call"
                 /\ UNCHANGED error
    /\ UNCHANGED <<registries, self, update_parameters, prev>>

\* lines 195-200; response holds existing_registry
DeleteLookup ==
    /\ pc = "delete_lookup"
    /\ calls' = Append(calls, Call("registries.get", "delete_container_registry"))
    /\ \E outcome \in GetOutcomes(self.name) :
         /\ failure' = Noted("registries.get", outcome \notin {"found", "not_found"})
         /\ IF outcome = "exception"
            THEN /\ Fail("uncaught")
                 /\ UNCHANGED <<response, results>>
            ELSE /\ response' = get_container_registry(outcome, self.name)
                 /\ results' = [results EXCEPT !.changed = (response' # None)]
                 /\ pc' = IF response' = None THEN "done" ELSE "delete_call"
                 /\ UNCHANGED error
    /\ UNCHANGED <<registries, self, update_parameters, prev>>

\* lines 201-208
DeleteCall ==
    /\ pc = "delete_call"
    /\ calls' = Append(calls, Call("registries.delete",
                                   "delete_container_registry"))
    /\ \E outcome \in WriteOutcomes :
         /\ failure' = Noted("registries.delete", outcome # "ok")
         /\ CASE outcome = "ok" ->
                   /\ registries' = [registries EXCEPT ![self.name] = None]
                   /\ pc' = "done"
                   /\ UNCHANGED error
              [] outcome = "cloud_error" ->
                   Fail("remote_error") /\ UNCHANGED registries
              [] outcome = "exception" ->
                   Fail("uncaught") /\ UNCHANGED registries
    /\ UNCHANGED <<self, results, response, update_parameters, prev>>

-----------------------------------------------------------------------------

Next ==
    \/ Invoke
    \/ InvokeAgain
    \/ Exit
    \/ ResolveResourceGroup
    \/ ValidateName
    \/ Lookup
    \/ CreateBegin
    \/ CreateKey
    \/ CreateCall
    \/ CreateRefetch
    \/ UpdateBegin
    \/ UpdateKey
    \/ UpdateTags
    \/ UpdateCall
    \/ UpdateRefetch
    \/ DeleteBegin
    \/ DeleteLookup
    \/ DeleteCall

Spec == Init /\ [][Next]_vars

TypeOK ==
    /\ pc \in {"idle", "resolve_rg", "validate", "lookup", "create",
               "create_key", "create_call", "create_refetch", "update",
               "update_key", "update_tags", "update_call", "update_refetch",
               "delete", "delete_lookup", "delete_call", "done", "failed"}
    /\ error \in {"none", "parameter_error", "remote_error", "uncaught"}
    /\ (pc = "failed") = (error # "none")
    /\ results.changed \in BOOLEAN
    /\ Len(calls) <= 5

-----------------------------------------------------------------------------
(* Properties *)

Ended == pc \in {"done", "failed"}

NameOutOfRange ==
    /\ pc # "idle"
    /\ Len(self.name) < MinNameLen \/ Len(self.name) > MaxNameLen

OnUpdatePath ==
    /\ pc # "idle"
    /\ self.state = "present"
    /\ response # Unset
    /\ response # None

OnCreatePath ==
    /\ pc # "idle"
    /\ self.state = "present"
    /\ response = None

Reads == CountCalls(ReadApis, Branches \cup {"exec_module"})
Writes == CountCalls(WriteApis, Branches \cup {"exec_module"})

\* the record get_container_registry builds from the provider's registry
Existing == registry_obj_to_dict(self.name, registries[self.name])

AsMap(tags) == IF tags = None THEN NoTags ELSE tags

\* the fields of the desired spec that differ from a registry record
Differing(record) ==
    (IF self.admin_user_enabled # record.admin_user_enabled
     THEN {"admin_user_enabled"} ELSE {})
    \cup (IF self.storage_account_name # record.storage_account_name
          THEN {"storage_account"} ELSE {})
    \cup (IF MergedTags(record.tags, self.tags) # AsMap(record.tags)
          THEN {"tags"} ELSE {})

\* C1 as stated: an invocation whose name is shorter than 5 or longer than
\* 50 characters fails with a parameter error and has issued no remote call
\* at all by then.
C1_ZeroCallsOnBadName ==
    (NameOutOfRange /\ Ended) =>
        /\ pc = "failed"
        /\ error = "parameter_error"
        /\ calls = <<>>

\* C1 amended: an invocation whose name is shorter than 5 or longer than 50
\* characters never gets past the name check: it cannot return, it fails
\* only with a parameter error, and the only remote call it has issued is
\* the resource-group lookup (no registry, storage-key or write call).
C1_OnlyResourceGroupLookupOnBadName ==
    NameOutOfRange =>
        /\ pc \in {"resolve_rg", "validate", "failed"}
        /\ pc = "failed" => error = "parameter_error"
        /\ Len(calls) <= 1
        /\ \A i \in 1..Len(calls) : calls[i].api = "get_resource_group"

C1_Witness ==
    /\ pc = "failed"
    /\ Len(self.name) = MaxNameLen + 1
    /\ failure = "none"
    /\ Len(calls) = 1

C3_NoDifferenceReturnsExistingRecord ==
    (pc = "done" /\ OnUpdatePath /\ ~Issued("registries.update")
        /\ Differing(Existing) = {})
    =>  /\ ~results.changed
        /\ results.state = Existing
        /\ calls[Len(calls)] = Call("registries.get", "exec_module")

\* C4: the delete, create and update branches of an invocation perform at
\* most 2 remote reads (registry get, storage key listing) and the
\* invocation at most 1 remote write (create, update or delete).
C4_BranchCallBudget ==
    /\ CountCalls(ReadApis, Branches) <= 2
    /\ Writes <= 1

C4_Witness ==
    /\ pc = "done"
    /\ CountCalls(ReadApis, Branches) = 2
    /\ Writes = 1

\* C5: in check mode no create, update or delete call is issued; with
\* state = present and a lookup that found no registry the invocation
\* returns changed = true and a synthesized record whose provisioning_state
\* is "Succeeded".
C5_CheckModeNeverWrites ==
    (pc # "idle" /\ self.check_mode) =>
        /\ Writes = 0
        /\ (pc = "done" /\ OnCreatePath) =>
              /\ results.changed
              /\ results.state = self_to_dict(self)
              /\ results.state.provisioning_state = "Succeeded"

C5_Witness ==
    /\ pc = "done"
    /\ self.check_mode
    /\ OnCreatePath
    /\ results.changed
    /\ results.state.login_server = self.name \o ".azurecr.io"

\* C6: with state = present, a lookup that found no registry and a missing
\* or zero-length storage_account_name, the invocation fails with a
\* parameter error and issues no create call, in check mode as well as
\* outside it (an exception other than CloudError raised by a remote call
\* is left aside).
C6_EmptyStorageAccountFails ==
    (Ended /\ OnCreatePath /\ self.storage_account_name \in {NoName, ""}
        /\ error # "uncaught")
    =>  /\ pc = "failed"
        /\ error = "parameter_error"
        /\ ~Issued("registries.create")

\* C7: outside check mode with state = absent, an invocation that returns
\* after a lookup that found nothing has changed = false, result None, no
\* write and, after the resource-group precondition, the lookup as its only
\* remote call; one that returns after a lookup that found a registry has
\* issued exactly one delete call and has changed = true, result None.
C7_AbsentOutcome ==
    (pc = "done" /\ self.state = "absent" /\ ~self.check_mode) =>
        IF response = None
        THEN /\ ~results.changed
             /\ results.state = None
             /\ Writes = 0
             /\ CountCalls(ReadApis, Branches \cup {"exec_module"}) = 1
        ELSE /\ results.changed
             /\ results.state = None
             /\ CountCalls({"registries.delete"}, Branches) = 1

\* C8 as stated: on the update path the update request carries exactly the
\* fields that differ from the existing record, the storage key is looked
\* up if and only if the desired storage_account_name differs from the
\* existing one, and outside check mode exactly one update call is issued
\* when at least one field differs.
C8_UpdateDelta ==
    /\ (pc = "update_call" \/ (pc = "done" /\ OnUpdatePath /\ self.check_mode))
          => DOMAIN update_parameters = Differing(Existing)
    /\ (Ended /\ OnUpdatePath) =>
          (Issued("storage_accounts.list_keys")
              <=> self.storage_account_name # response.storage_account_name)
    /\ (Ended /\ OnUpdatePath /\ ~self.check_mode
              /\ ~Issued("registries.update"))
          => Differing(Existing) = {}
    /\ CountCalls({"registries.update"}, Branches) <= 1

\* C8 amended: on the update path the update request carries exactly the
\* fields that differ from the existing record, each with the desired
\* value; once the storage_account_name check has passed, the storage key
\* is looked up if and only if the desired storage_account_name differs
\* from the existing one; at most one update call is issued, and an
\* invocation that returns outside check mode without having issued it
\* found no field to differ.
C8_UpdateDeltaUnlessFailed ==
    /\ (pc = "update_call" \/ (pc = "done" /\ OnUpdatePath /\ self.check_mode))
          => /\ DOMAIN update_parameters = Differing(Existing)
             /\ "admin_user_enabled" \in DOMAIN update_parameters
                   => update_parameters.admin_user_enabled = self.admin_user_enabled
             /\ "storage_account" \in DOMAIN update_parameters
                   => update_parameters.storage_account.name = self.storage_account_name
             /\ "tags" \in DOMAIN update_parameters
                   => update_parameters.tags = MergedTags(Existing.tags, self.tags)
    /\ ((pc \in {"update_tags", "update_call", "update_refetch", "done"})
              /\ OnUpdatePath)
          => (Issued("storage_accounts.list_keys")
                <=> self.storage_account_name # response.storage_account_name)
    /\ (pc = "done" /\ OnUpdatePath /\ ~self.check_mode
              /\ ~Issued("registries.update"))
          => Differing(Existing) = {}
    /\ CountCalls({"registries.update"}, Branches) <= 1

C8_Witness ==
    /\ pc = "update_call"
    /\ DOMAIN update_parameters = {"admin_user_enabled", "tags"}
    /\ ~Issued("storage_accounts.list_keys")
    /\ Existing.tags = None

\* C9: a registry lookup reporting "not found" is the only remote failure
\* after which an invocation goes on; after any other failed remote call
\* the invocation has terminated with an error.
C9_OtherFailuresTerminate ==
    failure # "none" => pc = "failed"

\* C10: an invocation that returns with changed = false has issued no
\* create, update or delete call; a create call is issued only after the
\* lookup returned None, an update or delete call only after it returned a
\* record.
C10_WritesFollowLookup ==
    /\ (pc = "done" /\ ~results.changed) => Writes = 0
    /\ Issued("registries.create") => response = None
    /\ (Issued("registries.update") \/ Issued("registries.delete"))
          => (response # None /\ response # Unset)

C10_Witness ==
    /\ pc = "done"
    /\ Issued("registries.delete")
    /\ results.changed
    /\ response # None

=============================================================================
